---- MODULE Spec2Model ----
(***************************************************************************)
(* A model of deck.gl's draw orchestration, src/core/lib/draw-layers.js:   *)
(* drawLayers, drawPickingBuffer, drawLayersInViewport and                 *)
(* drawLayerInViewport, run against a graphics context whose parameters    *)
(* are set by luma.gl's setParameters and withParameters.                  *)
(*                                                                         *)
(* One call is followed from its entry to its return or to the exception   *)
(* that leaves it.  The steps are the points where the code hands control  *)
(* to its collaborators: gl.clear, onViewportActive, layerFilter and       *)
(* layer.drawLayer, and logRenderStats.  The calls of gl.clear,            *)
(* onViewportActive and layer.drawLayer are appended to `trace` together   *)
(* with the context state they ran under, those of logRenderStats to       *)
(* `statsLog`.                                                             *)
(*                                                                         *)
(* Numbers: a colour channel c in [0,1] is held as the integer 255*c, so   *)
(* the blend colour [0, 0, 0, (layerIndex + 1) / 255] is                   *)
(* <<0, 0, 0, layerIndex + 1>>.                                            *)
(*                                                                         *)
(* The module also models src/core/viewports/orbit-viewport.js: the        *)
(* constructor, project, unproject and fitBounds of OrbitViewport, over    *)
(* gl-mat4 matrices held in exact integer arithmetic (angles that are      *)
(* multiples of 90 degrees, fields of view whose half-angle tangent is     *)
(* rational), a matrix being kept up to a positive factor.                 *)
(***************************************************************************)
EXTENDS Integers, Sequences, FiniteSets, TLC

VARIABLES
  renderCount,  \* draw-layers.js:28  module-level counter
  gl,           \* the graphics context's parameters
  pc,           \* position of the call
  args,         \* the arguments drawLayers runs with
  glAtCall,     \* context parameters when the call was entered
  glSaved,      \* state pushed by drawPickingBuffer's withParameters
  vi,           \* viewports.forEach: index (from 0) of the entry being processed
  li,           \* layers.forEach: layerIndex (from 0) of the next layer
  viewport,     \* drawLayers: const viewport
  glViewport,   \* drawLayersInViewport: const glViewport
  renderStats,  \* drawLayersInViewport: const renderStats
  statsLog,     \* the calls of logRenderStats: the statistics passed, and the
                \* line logged for each value log.priority may have
  trace,        \* calls made to gl.clear, onViewportActive, layer.drawLayer
  raised,       \* the exception leaving the call, "" when none
  renderCountAtCall,  \* renderCount when the call was entered
  argsAtCall,   \* the arguments as the caller gave them
  host,         \* where the program runs: it decides gl.canvas and window
  orbit,        \* orbit-viewport.js: the OrbitViewport last constructed
  call,         \* the last call made on an OrbitViewport
  prev          \* the call made before it

drawVars == <<renderCount, gl, pc, args, glAtCall, glSaved, vi, li,
              viewport, glViewport, renderStats, statsLog, trace, raised,
              renderCountAtCall, argsAtCall, host>>

orbitVars == <<orbit, call, prev>>

vars == <<drawVars, orbitVars>>

----------------------------------------------------------------------------
(* Bounds of the model *)

MaxLayers == 3

MaxViewports == 2

----------------------------------------------------------------------------
(* Program constants and the host environment *)

LOG_PRIORITY_DRAW == 2

\* window.devicePixelRatio of the host
DevicePixelRatio == 2

\* gl.canvas.clientHeight (the code's own default when there is no canvas)
ClientHeight == 100

\* getGLViewport: the height taken when gl has no canvas
DummyHeight == 100

\* A page, whose context has a canvas and which has a window; a process
\* without a window, whose context has no canvas
Hosts == {"browser", "headless"}

\* typeof window !== 'undefined'
HasWindow(h) == h = "browser"

\* gl.canvas
HasCanvas(h) == h = "browser"

\* gl.drawingBufferWidth and gl.drawingBufferHeight
DrawingBufferWidth == 200

DrawingBufferHeight == 200

----------------------------------------------------------------------------
(* Parameter maps: JavaScript objects keyed by parameter name *)

NoParams == <<>>

\* Object.assign({}, a, b): b's keys win
Assign(a, b) ==
  [k \in (DOMAIN a) \cup (DOMAIN b) |-> IF k \in DOMAIN b THEN b[k] ELSE a[k]]

GLKeys == {"framebuffer", "scissorTest", "scissor", "clearColor", "blend",
           "blendFunc", "blendEquation", "blendColor", "viewport", "depthTest"}

\* The context's parameters before any call: WebGL's defaults
DefaultGL ==
  [framebuffer   |-> "default",
   scissorTest   |-> FALSE,
   scissor       |-> <<0, 0, DrawingBufferWidth, DrawingBufferHeight>>,
   clearColor    |-> <<0, 0, 0, 0>>,
   blend         |-> FALSE,
   blendFunc     |-> <<"ONE", "ZERO", "ONE", "ZERO">>,
   blendEquation |-> "FUNC_ADD",
   blendColor    |-> <<0, 0, 0, 0>>,
   viewport      |-> <<0, 0, DrawingBufferWidth, DrawingBufferHeight>>,
   depthTest     |-> FALSE]

\* luma.gl setParameters(gl, parameters): sets the given keys and keeps them set
setParameters(g, parameters) ==
  [k \in GLKeys |-> IF k \in DOMAIN parameters THEN parameters[k] ELSE g[k]]

\* luma.gl withParameters(gl, parameters, func), on entry: the state is pushed
\* by the caller and the parameters are set
withParametersEnter(g, parameters) == setParameters(g, parameters)

\* luma.gl withParameters, on exit, by return or by exception: the pushed state
\* is popped, whatever was set in between
withParametersExit(pushed, g) == pushed

----------------------------------------------------------------------------
(* The inputs *)

\* typeof of a flag value; "undefined" is the flag left out by the caller
TypeOf(x) == IF x \in {"true", "false"} THEN "boolean" ELSE "undefined"

FlagValues == {"true", "false", "undefined"}

\* A layer: its id, what the code reads of layer.props (visible, pickable,
\* parameters, highlightedObjectIndex), layer.isComposite, and
\* layer.context.uniforms as `uniforms`
LayerPool ==
  { [id |-> "hidden",  visible |-> FALSE, pickable |-> TRUE,  isComposite |-> FALSE,
     parameters |-> NoParams, highlightedObjectIndex |-> -1,
     uniforms |-> NoParams],
    [id |-> "plain",   visible |-> TRUE,  pickable |-> FALSE, isComposite |-> FALSE,
     parameters |-> [depthTest |-> TRUE], highlightedObjectIndex |-> -1,
     uniforms |-> [opacity |-> 1]],
    [id |-> "pick",    visible |-> TRUE,  pickable |-> TRUE,  isComposite |-> FALSE,
     parameters |-> NoParams, highlightedObjectIndex |-> 4,
     uniforms |-> [layerIndex |-> 99, pickingEnabled |-> 0]],
    [id |-> "group",   visible |-> TRUE,  pickable |-> TRUE,  isComposite |-> TRUE,
     parameters |-> [blend |-> FALSE, blendColor |-> <<9, 9, 9, 9>>,
                     scissorTest |-> FALSE, framebuffer |-> "other",
                     viewport |-> <<1, 1, 1, 1>>],
     highlightedObjectIndex |-> -1,
     uniforms |-> NoParams] }

ViewportA == [id |-> "A", x |-> 0,  y |-> 0,  width |-> 40, height |-> 30]

ViewportB == [id |-> "B", x |-> 40, y |-> 10, width |-> 20, height |-> 50]

\* A viewports entry is a viewport or a descriptor carrying one
ViewportEntries == {ViewportA, [viewport |-> ViewportB]}

\* layers: at most MaxLayers layers, each layer object listed once
LayerLists ==
  {s \in UNION {[1..n -> LayerPool] : n \in 0..MaxLayers} :
     \A i, j \in DOMAIN s : i # j => s[i].id # s[j].id}

ViewportLists == UNION {[1..n -> ViewportEntries] : n \in 0..MaxViewports}

\* layerFilter: null, or a callback that depends on the layer, the viewport
\* and the pass
LayerFilters == {"null", "filter"}

layerFilterResult(layer, vp, isPicking) ==
  IF isPicking THEN vp.id = "A" ELSE ~layer.isComposite

\* parameters: the default {}, or a caller's map
PassParameters ==
  {NoParams, [depthTest |-> FALSE, blend |-> TRUE, viewport |-> <<2, 2, 2, 2>>]}

PickingFBO == "pickingFBO"

DeviceRect == [x |-> 7, y |-> 5, width |-> 1, height |-> 1]

DrawErrors == {"LayerErrorA", "LayerErrorB"}

AssertionError == "AssertionError: Invalid useDevicePixelRatio"

NoViewport == [id |-> "none", x |-> 0, y |-> 0, width |-> 0, height |-> 0]

NoArgs ==
  [fn |-> "none", layers |-> <<>>, viewports |-> <<>>,
   useDevicePixelRatio |-> "undefined", drawPickingColors |-> FALSE,
   parameters |-> NoParams, layerFilter |-> "null", pass |-> "draw"]

NoStats ==
  [totalCount |-> 0, visibleCount |-> 0, compositeCount |-> 0, pickableCount |-> 0]

----------------------------------------------------------------------------
(* draw-layers.js, function by function *)

\* getPixelRatio: the assertion on the flag's type
getPixelRatioAsserts(useDevicePixelRatio) == TypeOf(useDevicePixelRatio) = "boolean"

\* getPixelRatio: the value returned when the assertion holds
getPixelRatio(useDevicePixelRatio, h) ==
  IF useDevicePixelRatio = "true" /\ HasWindow(h) THEN DevicePixelRatio ELSE 1

getGLViewport_NoFlip(h, vp, pixelRatio) ==
  <<vp.x * pixelRatio, vp.y * pixelRatio, vp.width * pixelRatio,
    vp.height * pixelRatio>>

\* getGLViewport(gl, viewport, pixelRatio)
getGLViewport(h, vp, pixelRatio) ==
  LET height == IF HasCanvas(h) THEN ClientHeight ELSE DummyHeight
  IN  <<vp.x * pixelRatio,
        (height - vp.y - vp.height) * pixelRatio,
        vp.width * pixelRatio,
        vp.height * pixelRatio>>

getViewportFromDescriptor_Unresolved(viewportOrDescriptor) == viewportOrDescriptor

getViewportFromDescriptor(viewportOrDescriptor) ==
  IF "viewport" \in DOMAIN viewportOrDescriptor
    THEN viewportOrDescriptor.viewport
    ELSE viewportOrDescriptor

Event(type, g) ==
  [type |-> type, vi |-> -1, layerIndex |-> -1, layer |-> "", vp |-> NoViewport,
   gl |-> g, buffers |-> {}, parameters |-> NoParams, uniforms |-> NoParams,
   moduleParameters |-> NoParams, outcome |-> "ok"]

clearCanvas_Skipped(g, tr) == tr

\* clearCanvas: gl.clear inside withParameters({viewport: [0, 0, width, height]});
\* the context is as before when it returns
clearCanvas(g, tr) ==
  Append(tr,
    [Event("clear",
       withParametersEnter(g,
         [viewport |-> <<0, 0, DrawingBufferWidth, DrawingBufferHeight>>]))
     EXCEPT !.buffers = {"COLOR_BUFFER_BIT", "DEPTH_BUFFER_BIT"}])

\* drawLayers, up to viewports.forEach
drawLayersEnter(g, a) ==
  /\ args' = a
  /\ argsAtCall' = a
  /\ trace' = clearCanvas(g, <<>>)
  /\ vi' = 0
  /\ pc' = "viewports"

\* drawPickingBuffer: the parameters of its withParameters
pickingScope ==
  [framebuffer |-> PickingFBO,
   scissorTest |-> TRUE,
   scissor     |-> <<DeviceRect.x, DeviceRect.y, DeviceRect.width, DeviceRect.height>>,
   clearColor  |-> <<0, 0, 0, 0>>]

\* drawPickingBuffer: the parameters it passes to drawLayers
pickingParameters ==
  [blend         |-> TRUE,
   blendFunc     |-> <<"ONE", "ZERO", "CONSTANT_ALPHA", "ZERO">>,
   blendEquation |-> "FUNC_ADD",
   blendColor    |-> <<0, 0, 0, 0>>]

drawPickingBufferExit_NotScoped(pushed, g) == g

\* drawPickingBuffer: its withParameters ends, by return or by exception
drawPickingBufferExit(pushed, g) == withParametersExit(pushed, g)

\* The context once the running call has ended
Leave(a, pushed, g) ==
  IF a.fn = "drawPickingBuffer" THEN drawPickingBufferExit(pushed, g) ELSE g

shouldDrawLayer_IgnorePickable(layer, vp, drawPickingColors, layerFilter) ==
  IF layer.visible /\ layerFilter # "null"
    THEN layerFilterResult(layer, vp, drawPickingColors)
    ELSE layer.visible

\* drawLayersInViewport: should the layer be drawn
shouldDrawLayer(layer, vp, drawPickingColors, layerFilter) ==
  LET s1 == layer.visible
      s2 == IF drawPickingColors THEN s1 /\ layer.pickable ELSE s1
  IN  IF s2 /\ layerFilter # "null"
        THEN layerFilterResult(layer, vp, drawPickingColors)
        ELSE s2

\* drawLayersInViewport: const renderStats = {...}
newRenderStats(layers) ==
  [totalCount |-> Len(layers), visibleCount |-> 0, compositeCount |-> 0,
   pickableCount |-> 0]

countLayer_CompositeWhenDrawn(stats, layer, should) ==
  [stats EXCEPT
     !.pickableCount  = IF should /\ layer.pickable THEN @ + 1 ELSE @,
     !.compositeCount = IF should /\ layer.isComposite THEN @ + 1 ELSE @,
     !.visibleCount   = IF should /\ ~layer.isComposite THEN @ + 1 ELSE @]

\* drawLayersInViewport: the statistics after one layer of the iteration
countLayer(stats, layer, should) ==
  [stats EXCEPT
     !.pickableCount  = IF should /\ layer.pickable THEN @ + 1 ELSE @,
     !.compositeCount = IF layer.isComposite THEN @ + 1 ELSE @,
     !.visibleCount   = IF should /\ ~layer.isComposite THEN @ + 1 ELSE @]

pickingBlendColor_ZeroBased(layerIndex) == <<0, 0, 0, layerIndex>>

\* drawLayerInViewport: the blend colour of a picking pass, alpha in 1/255
pickingBlendColor(layerIndex) == <<0, 0, 0, layerIndex + 1>>

\* drawLayerInViewport: const layerParameters and what is assigned to it
resolveLayerParameters_LayerWins(layer, layerIndex, drawPickingColors, glvp, parameters) ==
  LET p1 == Assign(parameters, layer.parameters)
      p2 == Assign(p1, [viewport |-> glvp])
  IN  IF drawPickingColors
        THEN Assign(p2, [blendColor |-> pickingBlendColor(layerIndex)])
        ELSE p2

resolveLayerParameters(layer, layerIndex, drawPickingColors, glvp, parameters) ==
  LET p1 == Assign(layer.parameters, parameters)
      p2 == Assign(p1, [viewport |-> glvp])
  IN  IF drawPickingColors
        THEN Assign(p2, [blendColor |-> pickingBlendColor(layerIndex)])
        ELSE p2

\* drawLayerInViewport: const pickingUniforms
pickingUniforms(drawPickingColors) ==
  [renderPickingBuffer |-> IF drawPickingColors THEN 1 ELSE 0,
   pickingEnabled      |-> IF drawPickingColors THEN 1 ELSE 0]

resolveUniforms_ContextLast(layer, layerIndex, drawPickingColors) ==
  Assign(Assign(pickingUniforms(drawPickingColors), [layerIndex |-> layerIndex]),
         layer.uniforms)

\* drawLayerInViewport: const uniforms
resolveUniforms(layer, layerIndex, drawPickingColors) ==
  Assign(Assign(pickingUniforms(drawPickingColors), layer.uniforms),
         [layerIndex |-> layerIndex])

\* layer.props, as far as the code reads it
Props(layer) ==
  [visible |-> layer.visible, pickable |-> layer.pickable,
   parameters |-> layer.parameters,
   highlightedObjectIndex |-> layer.highlightedObjectIndex]

\* getPickingModuleParameters; null, which Object.assign passes over, is the
\* map without keys.  layer.encodePickingColor is the layer's own
getPickingModuleParameters(layer) ==
  IF layer.highlightedObjectIndex >= 0
    THEN [pickingSelectedColor |->
            [encodePickingColor |-> layer.highlightedObjectIndex],
          pickingSelectedColorValid |-> TRUE]
    ELSE NoParams

\* drawLayerInViewport: const moduleParameters and what is assigned to it;
\* layer.context.viewport is the viewport onViewportActive was called with
resolveModuleParameters(layer, vp, drawPickingColors) ==
  LET m == Assign(Props(layer),
                  [viewport |-> vp,
                   pickingActive |-> IF drawPickingColors THEN 1 ELSE 0])
  IN  IF drawPickingColors THEN Assign(m, getPickingModuleParameters(layer)) ELSE m

layerAfterDraw_AssignsInPlace(layer, layerParameters) ==
  [layer EXCEPT !.parameters = layerParameters]

\* drawLayerInViewport: the layer when it returns.  The first argument of
\* each Object.assign, the one it writes to, is an object made in the call
\* ({} or pickingUniforms), so nothing of the layer is written
layerAfterDraw(layer, layerParameters) == layer

propagate_Caught(outcome) == ""

\* What leaves layers.forEach and withParameters when layer.drawLayer ends
\* with `outcome`: nothing catches, an exception goes on as it is
propagate(outcome) == IF outcome = "ok" THEN "" ELSE outcome

\* logRenderStats: the message logged, "none" below the draw priority
logRenderStats(priority, stats, count, pass) ==
  IF priority >= LOG_PRIORITY_DRAW
    THEN LET primitiveCount == stats.totalCount - stats.compositeCount
             hiddenCount == primitiveCount - stats.visibleCount
         IN  [render |-> count, visible |-> stats.visibleCount,
              total |-> stats.totalCount, pass |-> pass,
              detail |-> priority > LOG_PRIORITY_DRAW,
              hidden |-> hiddenCount, composite |-> stats.compositeCount,
              unpickable |-> stats.pickableCount]
    ELSE [render |-> -1, visible |-> 0, total |-> 0, pass |-> "none",
          detail |-> FALSE, hidden |-> 0, composite |-> 0, unpickable |-> 0]

\* log.priority: below, at and above the draw priority
LogPriorities == {LOG_PRIORITY_DRAW - 1, LOG_PRIORITY_DRAW, LOG_PRIORITY_DRAW + 1}

----------------------------------------------------------------------------
(* orbit-viewport.js: numbers, vectors and matrices                        *)
(*                                                                         *)
(* Arithmetic is that of the real numbers, exact.  A matrix is gl-mat4's   *)
(* array of 16 numbers in column-major order: element i of the array is    *)
(* element i + 1 of the tuple.  Its entries are integers: a matrix with    *)
(* fractional entries is held multiplied by a positive number, which the   *)
(* division by w in transformVector removes.  Angles are in degrees, and   *)
(* those of the model are multiples of 90, whose sine and cosine are       *)
(* integers; the conversion to radians is not represented.                 *)
(*                                                                         *)
(* A point with the rational coordinates x/w, y/w, z/w is <<x, y, z, w>>   *)
(* with w > 0 and no factor common to the four.                            *)

Abs(n) == IF n < 0 THEN -n ELSE n

Sgn(n) == IF n > 0 THEN 1 ELSE IF n < 0 THEN -1 ELSE 0

RECURSIVE Gcd(_, _)
Gcd(a, b) == IF b = 0 THEN a ELSE Gcd(b, a % b)

RECURSIVE GcdOf(_)
GcdOf(s) == IF s = <<>> THEN 0 ELSE Gcd(Abs(Head(s)), GcdOf(Tail(s)))

RECURSIVE DividedBy(_, _)
DividedBy(s, g) ==
  IF s = <<>> THEN <<>> ELSE <<Head(s) \div g>> \o DividedBy(Tail(s), g)

\* The tuple s with what is common to its entries taken out, its entries
\* keeping their sign
Reduced(s) ==
  LET g == GcdOf(s) IN IF g = 0 THEN s ELSE DividedBy(s, g)

\* The point x/w, y/w, z/w: w # 0
Point(x, y, z, w) ==
  Reduced(<<x * Sgn(w), y * Sgn(w), z * Sgn(w), w * Sgn(w)>>)

\* Row r and column c of a matrix, both from 0
At(m, r, c) == m[c * 4 + r + 1]

\* The matrix of the four rows given
FromRows(rows) ==
  <<rows[1][1], rows[2][1], rows[3][1], rows[4][1],
    rows[1][2], rows[2][2], rows[3][2], rows[4][2],
    rows[1][3], rows[2][3], rows[3][3], rows[4][3],
    rows[1][4], rows[2][4], rows[3][4], rows[4][4]>>

\* gl-mat4 create(): the identity
createMat4 == FromRows(<< <<1, 0, 0, 0>>, <<0, 1, 0, 0>>, <<0, 0, 1, 0>>, <<0, 0, 0, 1>> >>)

\* gl-mat4 multiply(out, a, b): the product a b
mat4_multiply(a, b) ==
  LET e(r, c) == At(a, r, 0) * At(b, 0, c) + At(a, r, 1) * At(b, 1, c)
                   + At(a, r, 2) * At(b, 2, c) + At(a, r, 3) * At(b, 3, c)
  IN  <<e(0, 0), e(1, 0), e(2, 0), e(3, 0), e(0, 1), e(1, 1), e(2, 1), e(3, 1),
        e(0, 2), e(1, 2), e(2, 2), e(3, 2), e(0, 3), e(1, 3), e(2, 3), e(3, 3)>>

\* The product of a matrix and the column <<x, y, z, w>>
MatVec(m, v) ==
  LET e(r) == At(m, r, 0) * v[1] + At(m, r, 1) * v[2]
                + At(m, r, 2) * v[3] + At(m, r, 3) * v[4]
  IN  <<e(0), e(1), e(2), e(3)>>

Cos(deg) == CASE deg % 360 = 0 -> 1 [] deg % 360 = 90 -> 0
              [] deg % 360 = 180 -> -1 [] deg % 360 = 270 -> 0

Sin(deg) == CASE deg % 360 = 0 -> 0 [] deg % 360 = 90 -> 1
              [] deg % 360 = 180 -> 0 [] deg % 360 = 270 -> -1

\* gl-mat4 rotateX(out, a, rad): a times the rotation about X
mat4_rotateX(a, deg) ==
  mat4_multiply(a, FromRows(<< <<1, 0, 0, 0>>,
                               <<0, Cos(deg), -Sin(deg), 0>>,
                               <<0, Sin(deg), Cos(deg), 0>>,
                               <<0, 0, 0, 1>> >>))

\* gl-mat4 rotateY(out, a, rad)
mat4_rotateY(a, deg) ==
  mat4_multiply(a, FromRows(<< <<Cos(deg), 0, Sin(deg), 0>>,
                               <<0, 1, 0, 0>>,
                               <<-Sin(deg), 0, Cos(deg), 0>>,
                               <<0, 0, 0, 1>> >>))

\* gl-mat4 rotateZ(out, a, rad)
mat4_rotateZ(a, deg) ==
  mat4_multiply(a, FromRows(<< <<Cos(deg), -Sin(deg), 0, 0>>,
                               <<Sin(deg), Cos(deg), 0, 0>>,
                               <<0, 0, 1, 0>>,
                               <<0, 0, 0, 1>> >>))

\* gl-mat4 scale(out, a, v)
mat4_scale(a, v) ==
  mat4_multiply(a, FromRows(<< <<v[1], 0, 0, 0>>, <<0, v[2], 0, 0>>,
                               <<0, 0, v[3], 0>>, <<0, 0, 0, 1>> >>))

\* gl-mat4 translate(out, a, v)
mat4_translate(a, v) ==
  mat4_multiply(a, FromRows(<< <<1, 0, 0, v[1]>>, <<0, 1, 0, v[2]>>,
                               <<0, 0, 1, v[3]>>, <<0, 0, 0, 1>> >>))

Cross(u, v) ==
  <<u[2] * v[3] - u[3] * v[2], u[3] * v[1] - u[1] * v[3], u[1] * v[2] - u[2] * v[1]>>

Dot(u, v) == u[1] * v[1] + u[2] * v[2] + u[3] * v[3]

\* v over its length, the null vector staying null: the vectors of the model
\* lie along an axis, so the length is the one component that is not 0
Unit(v) == <<Sgn(v[1]), Sgn(v[2]), Sgn(v[3])>>

\* gl-mat4 lookAt(out, eye, center, up): the identity when eye is center
mat4_lookAt(eye, center, up) ==
  IF eye = center
    THEN createMat4
    ELSE LET z == Unit(<<eye[1] - center[1], eye[2] - center[2], eye[3] - center[3]>>)
             x == Unit(Cross(up, z))
             y == Unit(Cross(z, x))
         IN  FromRows(<< <<x[1], x[2], x[3], -Dot(x, eye)>>,
                         <<y[1], y[2], y[3], -Dot(y, eye)>>,
                         <<z[1], z[2], z[3], -Dot(z, eye)>>,
                         <<0, 0, 0, 1>> >>)

\* tan(fov / 180 * PI / 2) as <<numerator, denominator>>: exact at 90; 53 and
\* 127 are the angles 2 atan(1/2) and 2 atan(2), named by their rounded degrees
TanHalfFov(fov) ==
  CASE fov = 90 -> <<1, 1>> [] fov = 53 -> <<1, 2>> [] fov = 127 -> <<2, 1>>

\* n / t for a fraction t: the quotients of the model are whole
Quotient(n, t) == (n * t[2]) \div t[1]

\* gl-mat4 perspective(out, fovy, aspect, near, far) with aspect = width / height,
\* times tan(fovy / 2) * width * (far - near)
mat4_perspective(fov, width, height, near, far) ==
  LET t == TanHalfFov(fov)
  IN  <<t[2] * height * (far - near), 0, 0, 0,
        0, t[2] * width * (far - near), 0, 0,
        0, 0, -(far + near) * t[1] * width, -(t[1] * width * (far - near)),
        0, 0, -2 * far * near * t[1] * width, 0>>

\* The sequence 0, 1, 2, 3 without k
Others(k) == SelectSeq(<<0, 1, 2, 3>>, LAMBDA i : i # k)

\* Determinant of the rows rs and columns cs (three of each) of m
Det3(m, rs, cs) ==
    At(m, rs[1], cs[1]) * (At(m, rs[2], cs[2]) * At(m, rs[3], cs[3])
                             - At(m, rs[2], cs[3]) * At(m, rs[3], cs[2]))
  - At(m, rs[1], cs[2]) * (At(m, rs[2], cs[1]) * At(m, rs[3], cs[3])
                             - At(m, rs[2], cs[3]) * At(m, rs[3], cs[1]))
  + At(m, rs[1], cs[3]) * (At(m, rs[2], cs[1]) * At(m, rs[3], cs[2])
                             - At(m, rs[2], cs[2]) * At(m, rs[3], cs[1]))

Cofactor(m, r, c) ==
  (IF (r + c) % 2 = 0 THEN 1 ELSE -1) * Det3(m, Others(r), Others(c))

Determinant(m) ==
  At(m, 0, 0) * Cofactor(m, 0, 0) + At(m, 0, 1) * Cofactor(m, 0, 1)
    + At(m, 0, 2) * Cofactor(m, 0, 2) + At(m, 0, 3) * Cofactor(m, 0, 3)

\* gl-mat4 invert(out, a) for a determinant that is not 0: the inverse times
\* the determinant's absolute value
mat4_invert(a) ==
  LET s == Sgn(Determinant(a))
      e(r, c) == s * Cofactor(a, c, r)
  IN  <<e(0, 0), e(1, 0), e(2, 0), e(3, 0), e(0, 1), e(1, 1), e(2, 1), e(3, 1),
        e(0, 2), e(1, 2), e(2, 2), e(3, 2), e(0, 3), e(1, 3), e(2, 3), e(3, 3)>>

----------------------------------------------------------------------------
(* The Viewport base class and math/utils, which orbit-viewport.js imports *)

\* Viewport's constructor: the pixel matrices derived from the view and the
\* projection matrix.  The first factor is twice the matrix that takes clip
\* space to pixels, [[w/2, 0, 0, w/2], [0, -h/2, 0, h/2], [0, 0, 1, 0], [0, 0, 0, 1]]
Viewport(o) ==
  LET pixelScale == FromRows(<< <<o.width, 0, 0, o.width>>,
                                <<0, -o.height, 0, o.height>>,
                                <<0, 0, 2, 0>>,
                                <<0, 0, 0, 2>> >>)
      pixelProjectionMatrix ==
        Reduced(mat4_multiply(pixelScale,
                              mat4_multiply(o.projectionMatrix, o.viewMatrix)))
  IN  [viewMatrix |-> o.viewMatrix,
       projectionMatrix |-> o.projectionMatrix,
       pixelProjectionMatrix |-> pixelProjectionMatrix,
       pixelUnprojectionMatrix |-> Reduced(mat4_invert(pixelProjectionMatrix))]

\* Does the division by w in transformVector(matrix, vector) give numbers
Finite(matrix, vector) == MatVec(matrix, vector)[4] # 0

\* transformVector(matrix, vector), vector being the point with a 1 appended:
\* the product over its own w.  The w of the result, always 1, is left out
transformVector(matrix, vector) ==
  LET result == MatVec(matrix, vector)
  IN  Point(result[1], result[2], result[3], result[4])

----------------------------------------------------------------------------
(* orbit-viewport.js *)

\* A destructured argument with its default
Opt(o, k, default) == IF k \in DOMAIN o THEN o[k] ELSE default

\* constructor({width, height, distance, rotationX = 0, ...})
OrbitViewport(opts) ==
  LET width == opts.width
      height == opts.height
      distance == opts.distance
      rotationX == Opt(opts, "rotationX", 0)
      rotationOrbit == Opt(opts, "rotationOrbit", 0)
      orbitAxis == Opt(opts, "orbitAxis", "Z")
      lookAt == Opt(opts, "lookAt", <<0, 0, 0>>)
      up == Opt(opts, "up", <<0, 1, 0>>)
      fov == Opt(opts, "fov", 75)
      near == Opt(opts, "near", 1)
      far == Opt(opts, "far", 100)
      zoom == Opt(opts, "zoom", 1)
      rotationMatrix0 == mat4_rotateX(createMat4, -rotationX)
      rotationMatrix ==
        IF orbitAxis = "Z"
          THEN mat4_rotateZ(rotationMatrix0, -rotationOrbit)
          ELSE mat4_rotateY(rotationMatrix0, -rotationOrbit)
      translateMatrix ==
        mat4_translate(mat4_scale(createMat4, <<zoom, zoom, zoom>>),
                       <<-lookAt[1], -lookAt[2], -lookAt[3]>>)
      viewMatrix == mat4_lookAt(<<0, 0, distance>>, <<0, 0, 0>>, up)
      perspectiveMatrix == mat4_perspective(fov, width, height, near, far)
  IN  Assign(
        Viewport([viewMatrix |-> mat4_multiply(viewMatrix,
                                   mat4_multiply(rotationMatrix, translateMatrix)),
                  projectionMatrix |-> perspectiveMatrix,
                  width |-> width, height |-> height]),
        [width |-> width, height |-> height, distance |-> distance,
         rotationX |-> rotationX, rotationOrbit |-> rotationOrbit,
         orbitAxis |-> orbitAxis, lookAt |-> lookAt, up |-> up, fov |-> fov,
         near |-> near, far |-> far, zoom |-> zoom])

project_FlipsByWidth(this, xyz, topLeft) ==
  LET v == transformVector(this.pixelProjectionMatrix, xyz)
  IN  <<v[1], IF topLeft THEN this.width * v[4] - v[2] ELSE v[2], v[3], v[4]>>

\* project(xyz, {topLeft = false} = {})
project(this, xyz, topLeft) ==
  LET v == transformVector(this.pixelProjectionMatrix, xyz)
      y2 == IF topLeft THEN this.height * v[4] - v[2] ELSE v[2]
  IN  <<v[1], y2, v[3], v[4]>>

unproject_NoFlip(this, xyz, topLeft) ==
  transformVector(this.pixelUnprojectionMatrix, xyz)

\* unproject(xyz, {topLeft = false} = {})
unproject(this, xyz, topLeft) ==
  LET y2 == IF topLeft THEN this.height * xyz[4] - xyz[2] ELSE xyz[2]
  IN  transformVector(this.pixelUnprojectionMatrix, <<xyz[1], y2, xyz[3], xyz[4]>>)

Max3(max) ==
  LET m == IF max[1] >= max[2] THEN max[1] ELSE max[2]
  IN  IF m >= max[3] THEN m ELSE max[3]

fitBounds_DefaultLookAt(this, max) ==
  OrbitViewport(
    [width |-> this.width, height |-> this.height, rotationX |-> this.rotationX,
     rotationOrbit |-> this.rotationOrbit, orbitAxis |-> this.orbitAxis,
     up |-> this.up, fov |-> this.fov, near |-> this.near, far |-> this.far,
     zoom |-> this.zoom,
     distance |-> Quotient(Max3(max), TanHalfFov(this.fov))])

\* fitBounds(max); translationX and translationY, which `this` does not have,
\* are undefined in the argument and are left out of it
fitBounds(this, max) ==
  LET size == Max3(max)
      newDistance == Quotient(size, TanHalfFov(this.fov))
  IN  OrbitViewport(
        [width |-> this.width, height |-> this.height,
         rotationX |-> this.rotationX, rotationOrbit |-> this.rotationOrbit,
         orbitAxis |-> this.orbitAxis, up |-> this.up, fov |-> this.fov,
         near |-> this.near, far |-> this.far, zoom |-> this.zoom,
         lookAt |-> this.lookAt, distance |-> newDistance])

\* `this` after a method has run: no method assigns to a field of it
thisAfter(this) == this

----------------------------------------------------------------------------
(* The calls made on OrbitViewport *)

\* What the caller gives besides width, height and distance.  fov, near and
\* far are always given: tan of half the default fov of 75 is not a fraction,
\* and the default far of 100 is kept out of the matrices
OrbitExtras ==
  { [fov |-> 90, near |-> 1, far |-> 3],
    [fov |-> 90, near |-> 1, far |-> 3, orbitAxis |-> "Y", rotationX |-> 90,
     rotationOrbit |-> 90],
    [fov |-> 53, near |-> 1, far |-> 3, orbitAxis |-> "X", rotationOrbit |-> 90,
     lookAt |-> <<1, 2, 0>>, zoom |-> 2],
    [fov |-> 90, near |-> 1, far |-> 3, orbitAxis |-> "Z", rotationOrbit |-> 180,
     up |-> <<1, 0, 0>>],
    [fov |-> 53, near |-> 2, far |-> 4, rotationX |-> 270, lookAt |-> <<1, 2, 0>>] }

OrbitDistances == {5, 0, -5}

OrbitOptions ==
  {Assign([width |-> 4, height |-> 2, distance |-> d], e) :
     d \in OrbitDistances, e \in OrbitExtras}

\* The argument of fitBounds
BoundsMax == {<<1, 2, 1>>, <<-1, -2, -3>>}

\* World points given to project
WorldPoints == {Point(1, 1, 3, 1), Point(0, 0, 0, 1), Point(1, -1, 7, 2)}

\* Pixel points given to unproject besides those project returned
PixelPoints == {Point(2, 1, 0, 1)}

NoOrbit == [width |-> 0, height |-> 0]

NoCall ==
  [op |-> "none", this |-> NoOrbit, thisAfter |-> NoOrbit, opts |-> NoParams,
   max |-> <<0, 0, 0>>, xyz |-> Point(0, 0, 0, 1), topLeft |-> FALSE,
   returned |-> NoOrbit, result |-> Point(0, 0, 0, 1)]

\* new OrbitViewport(opts): the one viewport the caller constructs itself
NewOrbitViewport ==
  /\ orbit = NoOrbit
  /\ \E opts \in OrbitOptions :
    /\ orbit' = OrbitViewport(opts)
    /\ call' = [NoCall EXCEPT !.op = "new", !.opts = opts, !.returned = orbit']
    /\ prev' = call
  /\ UNCHANGED drawVars

\* orbit.fitBounds(max); the caller keeps what it returns
FitBounds ==
  /\ orbit # NoOrbit
  /\ \E max \in BoundsMax :
       /\ orbit' = fitBounds(orbit, max)
       /\ call' = [NoCall EXCEPT !.op = "fitBounds", !.this = orbit,
                                 !.thisAfter = thisAfter(orbit), !.max = max,
                                 !.returned = orbit']
       /\ prev' = call
  /\ UNCHANGED drawVars

\* orbit.project(xyz, {topLeft}), for a point off the plane of the eye, where
\* the division by w gives no number
Project ==
  /\ orbit # NoOrbit
  /\ \E xyz \in WorldPoints, topLeft \in BOOLEAN :
       /\ Finite(orbit.pixelProjectionMatrix, xyz)
       /\ call' = [NoCall EXCEPT !.op = "project", !.this = orbit,
                                 !.thisAfter = thisAfter(orbit), !.xyz = xyz,
                                 !.topLeft = topLeft,
                                 !.result = project(orbit, xyz, topLeft)]
       /\ prev' = call
       /\ UNCHANGED orbit
  /\ UNCHANGED drawVars

\* orbit.unproject(xyz, {topLeft}), for what project has just returned or for
\* a pixel of the caller's
Unproject ==
  /\ orbit # NoOrbit
  /\ \E xyz \in PixelPoints \cup (IF call.op = "project" THEN {call.result} ELSE {}),
        topLeft \in BOOLEAN :
       LET flipped == <<xyz[1], IF topLeft THEN orbit.height * xyz[4] - xyz[2] ELSE xyz[2],
                        xyz[3], xyz[4]>>
       IN  /\ Finite(orbit.pixelUnprojectionMatrix, flipped)
           /\ call' = [NoCall EXCEPT !.op = "unproject", !.this = orbit,
                                     !.thisAfter = thisAfter(orbit), !.xyz = xyz,
                                     !.topLeft = topLeft,
                                     !.result = unproject(orbit, xyz, topLeft)]
           /\ prev' = call
           /\ UNCHANGED orbit
  /\ UNCHANGED drawVars

----------------------------------------------------------------------------
(* The state machine of draw-layers.js *)

\* The state before the call, in host h after count viewports were rendered
InitIn(h, count) ==
  /\ renderCount = count
  /\ gl = DefaultGL
  /\ pc = "idle"
  /\ args = NoArgs
  /\ glAtCall = DefaultGL
  /\ glSaved = DefaultGL
  /\ vi = 0
  /\ li = 0
  /\ viewport = NoViewport
  /\ glViewport = <<0, 0, 0, 0>>
  /\ renderStats = NoStats
  /\ statsLog = <<>>
  /\ trace = <<>>
  /\ raised = ""
  /\ renderCountAtCall = renderCount
  /\ argsAtCall = NoArgs
  /\ host = h
  /\ orbit = NoOrbit
  /\ call = NoCall
  /\ prev = NoCall

\* A page that has rendered nothing yet
Init == InitIn("browser", 0)

\* renderCount when the call is made after 7 viewports have been rendered
PriorRenderCounts == {7}

\* A page that has rendered before
InitCounter == \E count \in PriorRenderCounts : InitIn("browser", count)

\* Any host
InitHost == \E h \in Hosts : InitIn(h, 0)

\* export function drawLayers(gl, {...}): entry and clearCanvas
DrawLayers ==
  /\ pc = "idle"
  /\ \E layers \in LayerLists, viewports \in ViewportLists,
        useDevicePixelRatio \in FlagValues, drawPickingColors \in BOOLEAN,
        parameters \in PassParameters, layerFilter \in LayerFilters :
       drawLayersEnter(gl,
         [fn |-> "drawLayers", layers |-> layers, viewports |-> viewports,
          useDevicePixelRatio |-> useDevicePixelRatio,
          drawPickingColors |-> drawPickingColors, parameters |-> parameters,
          layerFilter |-> layerFilter, pass |-> "draw"])
  /\ glAtCall' = gl
  /\ renderCountAtCall' = renderCount
  /\ UNCHANGED <<renderCount, host, gl, glSaved, li, viewport, glViewport,
                 renderStats, statsLog, raised>>
  /\ UNCHANGED orbitVars

\* export function drawPickingBuffer(gl, {...}): withParameters is entered and
\* drawLayers is called
DrawPickingBuffer ==
  /\ pc = "idle"
  /\ glAtCall' = gl
  /\ renderCountAtCall' = renderCount
  /\ glSaved' = gl
  /\ gl' = withParametersEnter(gl, pickingScope)
  /\ \E layers \in LayerLists, viewports \in ViewportLists,
        useDevicePixelRatio \in FlagValues, layerFilter \in LayerFilters :
       drawLayersEnter(gl',
         [fn |-> "drawPickingBuffer", layers |-> layers, viewports |-> viewports,
          useDevicePixelRatio |-> useDevicePixelRatio,
          drawPickingColors |-> TRUE, parameters |-> pickingParameters,
          layerFilter |-> layerFilter, pass |-> "picking"])
  /\ UNCHANGED <<renderCount, host, li, viewport, glViewport,
                 renderStats, statsLog, raised>>
  /\ UNCHANGED orbitVars

\* viewports.forEach: the next entry is resolved and onViewportActive is called
ViewportActive ==
  /\ pc = "viewports"
  /\ vi < Len(args.viewports)
  /\ viewport' = getViewportFromDescriptor(args.viewports[vi + 1])
  /\ trace' = Append(trace, [Event("active", gl) EXCEPT !.vi = vi, !.vp = viewport'])
  /\ pc' = "viewport"
  /\ UNCHANGED <<renderCount, renderCountAtCall, argsAtCall, host, gl, args,
                 glAtCall, glSaved, vi, li,
                 glViewport, renderStats, statsLog, raised>>
  /\ UNCHANGED orbitVars

\* drawLayersInViewport, up to layers.forEach
ViewportBegin ==
  /\ pc = "viewport"
  /\ IF getPixelRatioAsserts(args.useDevicePixelRatio)
       THEN /\ glViewport' = getGLViewport(host, viewport,
                                 getPixelRatio(args.useDevicePixelRatio, host))
            /\ renderStats' = newRenderStats(args.layers)
            /\ gl' = setParameters(gl, args.parameters)
            /\ li' = 0
            /\ pc' = "layers"
            /\ UNCHANGED raised
       ELSE /\ raised' = AssertionError
            /\ gl' = Leave(args, glSaved, gl)
            /\ pc' = "raised"
            /\ UNCHANGED <<glViewport, renderStats, li>>
  /\ UNCHANGED <<renderCount, renderCountAtCall, argsAtCall, host, args,
                 glAtCall, glSaved, vi, viewport,
                 statsLog, trace>>
  /\ UNCHANGED orbitVars

\* layers.forEach: one layer, drawn by drawLayerInViewport when it should be
LayerStep ==
  /\ pc = "layers"
  /\ li < Len(args.layers)
  /\ LET layer == args.layers[li + 1]
         should == shouldDrawLayer(layer, viewport, args.drawPickingColors,
                                   args.layerFilter)
         layerParameters == resolveLayerParameters(layer, li, args.drawPickingColors,
                                                   glViewport, args.parameters)
     IN  /\ renderStats' = countLayer(renderStats, layer, should)
         /\ IF should
              THEN \E outcome \in {"ok"} \cup DrawErrors :
                     /\ trace' = Append(trace,
                          [Event("draw", withParametersEnter(gl, layerParameters))
                             EXCEPT !.vi = vi, !.layerIndex = li, !.layer = layer.id,
                                    !.vp = viewport, !.parameters = layerParameters,
                                    !.uniforms =
                                      resolveUniforms(layer, li, args.drawPickingColors),
                                    !.moduleParameters =
                                      resolveModuleParameters(layer, viewport,
                                                              args.drawPickingColors),
                                    !.outcome = outcome])
                     /\ args' = [args EXCEPT
                                   !.layers[li + 1] = layerAfterDraw(layer, layerParameters)]
                     /\ IF propagate(outcome) = ""
                          THEN /\ gl' = withParametersExit(gl, gl)
                               /\ li' = li + 1
                               /\ UNCHANGED <<pc, raised>>
                          ELSE /\ raised' = propagate(outcome)
                               /\ gl' = Leave(args, glSaved, withParametersExit(gl, gl))
                               /\ pc' = "raised"
                               /\ UNCHANGED li
              ELSE /\ li' = li + 1
                   /\ UNCHANGED <<trace, gl, pc, raised, args>>
  /\ UNCHANGED <<renderCount, renderCountAtCall, argsAtCall, host, glAtCall, glSaved,
                 vi, viewport, glViewport, statsLog>>
  /\ UNCHANGED orbitVars

ViewportEnd_CountsWhenLayers ==
  /\ pc = "layers"
  /\ li = Len(args.layers)
  /\ renderCount' = IF Len(args.layers) > 0 THEN renderCount + 1 ELSE renderCount
  /\ statsLog' = Append(statsLog,
       [vi |-> vi, renderStats |-> renderStats,
        message |-> [priority \in LogPriorities |->
                       logRenderStats(priority, renderStats, renderCount', args.pass)]])
  /\ vi' = vi + 1
  /\ pc' = "viewports"
  /\ UNCHANGED <<renderCountAtCall, argsAtCall, host, gl, args, glAtCall, glSaved,
                 li, viewport, glViewport, renderStats, trace, raised>>
  /\ UNCHANGED orbitVars

\* drawLayersInViewport, after layers.forEach: renderCount++ and logRenderStats
ViewportEnd ==
  /\ pc = "layers"
  /\ li = Len(args.layers)
  /\ renderCount' = renderCount + 1
  /\ statsLog' = Append(statsLog,
       [vi |-> vi, renderStats |-> renderStats,
        message |-> [priority \in LogPriorities |->
                       logRenderStats(priority, renderStats, renderCount', args.pass)]])
  /\ vi' = vi + 1
  /\ pc' = "viewports"
  /\ UNCHANGED <<renderCountAtCall, argsAtCall, host, gl, args, glAtCall, glSaved, li, viewport,
                 glViewport, renderStats, trace, raised>>
  /\ UNCHANGED orbitVars

\* viewports.forEach is over: drawLayers returns, and with it drawPickingBuffer
Return ==
  /\ pc = "viewports"
  /\ vi = Len(args.viewports)
  /\ gl' = Leave(args, glSaved, gl)
  /\ pc' = "returned"
  /\ UNCHANGED <<renderCount, renderCountAtCall, argsAtCall, host, args,
                 glAtCall, glSaved, vi, li, viewport,
                 glViewport, renderStats, statsLog, trace, raised>>
  /\ UNCHANGED orbitVars

\* Calls of drawLayers and drawPickingBuffer
Next ==
  \/ DrawLayers
  \/ DrawPickingBuffer
  \/ ViewportActive
  \/ ViewportBegin
  \/ LayerStep
  \/ ViewportEnd
  \/ Return

Spec == Init /\ [][Next]_vars

\* The same calls in any host
SpecHost == InitHost /\ [][Next]_vars

\* The same calls after earlier renders
SpecCounter == InitCounter /\ [][Next]_vars

\* Calls on OrbitViewport
NextOrbit ==
  \/ NewOrbitViewport
  \/ FitBounds
  \/ Project
  \/ Unproject

SpecOrbit == Init /\ [][NextOrbit]_vars

----------------------------------------------------------------------------
(* Reading the trace *)

Events(type) == {i \in DOMAIN trace : trace[i].type = type}

\* The draws of viewport entry v (from 0), as layerIndex values
DrawnIn(v) == {trace[i].layerIndex : i \in {j \in Events("draw") : trace[j].vi = v}}

\* The viewport an entry stands for: its viewport field when it has one
ResolvedEntry(v) ==
  LET entry == args.viewports[v + 1]
  IN  IF "viewport" \in DOMAIN entry THEN entry.viewport ELSE entry

IsPickingPass == args.drawPickingColors

\* (v, l): layers.forEach of viewport entry v has gone past layer l
Iterated(v, l) == v < vi \/ (v = vi /\ pc = "layers" /\ l < li)

Ids(layers) == [i \in DOMAIN layers |-> layers[i].id]

----------------------------------------------------------------------------
(* C1 *)

Eligible(layer, vp) ==
  /\ layer.visible
  /\ (~IsPickingPass \/ layer.pickable)
  /\ (args.layerFilter = "null" \/ layerFilterResult(layer, vp, IsPickingPass))

\* C1: drawLayer is invoked only for layers that are visible, pickable when
\* the pass is a picking pass, and accepted by layerFilter when there is
\* one; each such layer that layers.forEach has gone past was drawn, once,
\* in that viewport.  With the layers hidden, plain (not pickable) and pick
\* and no filter, a picking pass that completes draws exactly the third in
\* each viewport and a normal one exactly the second and the third.
C1_DrawnIffEligible ==
  /\ \A i \in Events("draw") :
       /\ Eligible(args.layers[trace[i].layerIndex + 1], ResolvedEntry(trace[i].vi))
       /\ \A j \in Events("draw") :
            (trace[j].vi = trace[i].vi /\ trace[j].layerIndex = trace[i].layerIndex)
              => j = i
  /\ \A v \in 0..(Len(args.viewports) - 1), l \in 0..(Len(args.layers) - 1) :
       (Iterated(v, l) /\ Eligible(args.layers[l + 1], ResolvedEntry(v)))
         => l \in DrawnIn(v)
  /\ (pc = "returned" /\ Ids(args.layers) = <<"hidden", "plain", "pick">>
        /\ args.layerFilter = "null")
       => \A v \in 0..(Len(args.viewports) - 1) :
            DrawnIn(v) = IF IsPickingPass THEN {2} ELSE {1, 2}

C1_Witness ==
  /\ pc = "returned"
  /\ args.fn = "drawPickingBuffer"
  /\ Ids(args.layers) = <<"hidden", "plain", "pick">>
  /\ args.layerFilter = "null"
  /\ Len(args.viewports) = 1
  /\ DrawnIn(0) = {2}

----------------------------------------------------------------------------
(* C2 *)

\* Draws of the same viewport that came before draw event i
EarlierDraws(i) == {j \in Events("draw") : trace[j].vi = trace[i].vi /\ j < i}

\* C2 as stated: in a picking pass the k-th layer drawn in a viewport, k from
\* 0 over the layers drawn, gets a blend colour of alpha (k+1)/255.
C2_AlphaByDrawOrder ==
  IsPickingPass =>
    \A i \in Events("draw") :
      trace[i].parameters.blendColor[4] = Cardinality(EarlierDraws(i)) + 1

\* C2, amended: in a picking pass a drawn layer gets, as its resolved
\* parameter and in the context it is drawn under, a blend colour of alpha
\* (p+1)/255 where p is the layer's position (from 0) in the layers list,
\* layers that are not drawn counted; the alpha is never 0.
C2_AlphaByListPosition ==
  IsPickingPass =>
    \A i \in Events("draw") :
      /\ \A p \in DOMAIN args.layers :
           args.layers[p].id = trace[i].layer
             => /\ trace[i].parameters.blendColor = <<0, 0, 0, p>>
                /\ trace[i].gl.blendColor = <<0, 0, 0, p>>
      /\ trace[i].gl.blendColor[4] # 0

C2_Witness ==
  /\ IsPickingPass
  /\ \E i \in Events("draw") :
       /\ EarlierDraws(i) = {}
       /\ trace[i].layerIndex = 1
       /\ trace[i].gl.blendColor[4] = 2

----------------------------------------------------------------------------
(* C3 *)

\* C3: once drawLayers has been entered the first call it made is the one
\* clear of the colour and depth buffers, and it makes no other clear: the
\* clear is before every onViewportActive and every layer draw, for any
\* number of viewports and layers.
C3_ClearedOnceFirst ==
  pc # "idle" =>
    /\ Len(trace) >= 1
    /\ trace[1].type = "clear"
    /\ trace[1].buffers = {"COLOR_BUFFER_BIT", "DEPTH_BUFFER_BIT"}
    /\ Events("clear") = {1}

C3_Witness ==
  /\ pc = "returned"
  /\ Len(args.viewports) = 2
  /\ Events("clear") = {1}
  /\ Cardinality(Events("active")) = 2
  /\ Cardinality(Events("draw")) >= 2

----------------------------------------------------------------------------
(* C4 *)

\* C4: onViewportActive is called with the resolved viewport of its entry,
\* at most once per entry and in list order; a layer is drawn for the
\* resolved viewport of its entry, after that entry's onViewportActive and
\* before the next entry's, in layer-list order; a pass that completes has
\* called onViewportActive for every entry.
C4_ViewportOrder ==
  /\ \A i \in Events("active") \cup Events("draw") :
       /\ trace[i].vi \in 0..(Len(args.viewports) - 1)
       /\ trace[i].vp = ResolvedEntry(trace[i].vi)
       /\ trace[i].type = "draw" =>
            \E j \in Events("active") : j < i /\ trace[j].vi = trace[i].vi
       /\ \A j \in Events("active") \cup Events("draw") :
            j > i =>
              \/ trace[j].vi > trace[i].vi
              \/ /\ trace[j].vi = trace[i].vi
                 /\ trace[j].type = "draw"
                 /\ trace[i].type = "draw" => trace[j].layerIndex > trace[i].layerIndex
  /\ pc = "returned" =>
       \A v \in 0..(Len(args.viewports) - 1) :
         \E i \in Events("active") : trace[i].vi = v

C4_Witness ==
  /\ pc = "returned"
  /\ Len(args.viewports) = 2
  /\ "viewport" \in DOMAIN args.viewports[1]
  /\ "viewport" \notin DOMAIN args.viewports[2]
  /\ Cardinality(DrawnIn(0)) >= 2
  /\ Cardinality(DrawnIn(1)) >= 2

----------------------------------------------------------------------------
(* C5 *)

\* C5: when a layer's draw raises, that draw is the last call the pass makes
\* (no later layer is drawn, no later viewport is activated), the viewport's
\* iteration is not completed, and the call ends with the same exception.
C5_RaisePropagates ==
  \A i \in Events("draw") :
    trace[i].outcome # "ok" =>
      /\ i = Len(trace)
      /\ pc = "raised"
      /\ raised = trace[i].outcome
      /\ Len(statsLog) = trace[i].vi

C5_Witness ==
  /\ pc = "raised"
  /\ raised = "LayerErrorB"
  /\ args.fn = "drawLayers"
  /\ Len(args.viewports) = 2
  /\ trace[Len(trace)].vi = 0
  /\ trace[Len(trace)].layerIndex = 0
  /\ Len(args.layers) = 2
  /\ Eligible(args.layers[2], ResolvedEntry(0))

----------------------------------------------------------------------------
(* C6 *)

\* C6 as stated: a drawLayers pass leaks no context state: when drawLayers
\* has returned every parameter of the context has the value it had before
\* the call, and each layer is drawn under the state before the call changed
\* only by that layer's resolved parameters.
C6_NoStateLeak ==
  args.fn = "drawLayers" =>
    /\ pc = "returned" => gl = glAtCall
    /\ \A i \in Events("draw") :
         trace[i].gl = setParameters(glAtCall, trace[i].parameters)

----------------------------------------------------------------------------
(* C7 *)

\* C7 as stated: in drawPickingBuffer the clear and every layer draw run with
\* the picking target as render target, the scissor test on and the scissor
\* rectangle equal to deviceRect, whatever parameters the layers declare.
C7_PickingTargetAndScissor ==
  args.fn = "drawPickingBuffer" =>
    \A i \in Events("clear") \cup Events("draw") :
      /\ trace[i].gl.framebuffer = PickingFBO
      /\ trace[i].gl.scissorTest
      /\ trace[i].gl.scissor =
           <<DeviceRect.x, DeviceRect.y, DeviceRect.width, DeviceRect.height>>

----------------------------------------------------------------------------
(* C8 *)

\* C8: when drawPickingBuffer has ended, by return or by an exception, the
\* picking target is not the render target and the render target, scissor
\* test, scissor rectangle, clear colour and blend state of the context are
\* those of before the call.
C8_PickingScopeReleased ==
  (args.fn = "drawPickingBuffer" /\ pc \in {"returned", "raised"}) =>
    /\ gl.framebuffer # PickingFBO
    /\ \A k \in {"framebuffer", "scissorTest", "scissor", "clearColor", "blend",
                 "blendFunc", "blendEquation", "blendColor"} :
         gl[k] = glAtCall[k]

C8_Witness ==
  /\ args.fn = "drawPickingBuffer"
  /\ pc = "raised"
  /\ raised \in DrawErrors
  /\ trace[Len(trace)].gl.framebuffer = PickingFBO
  /\ trace[Len(trace)].gl.blend
  /\ gl.framebuffer = "default"
  /\ ~gl.blend

----------------------------------------------------------------------------
(* C9 *)

\* C9 as stated: with a useDevicePixelRatio that is not a boolean the call
\* fails at entry, for every input: once it has ended it has raised the
\* assertion, and it has made no clear, no onViewportActive call and no
\* layer draw.
C9_FailsAtEntry ==
  (pc \in {"returned", "raised"} /\ TypeOf(args.useDevicePixelRatio) # "boolean") =>
    /\ pc = "raised"
    /\ raised = AssertionError
    /\ trace = <<>>

----------------------------------------------------------------------------
(* C10 *)

LayersWhere(P(_)) == {l \in 0..(Len(args.layers) - 1) : P(args.layers[l + 1])}

\* C10: the statistics handed to logRenderStats when a viewport's layer
\* iteration has ended count that viewport alone: totalCount is the length
\* of the layers list, pickableCount the layers drawn in the viewport that
\* are pickable, compositeCount the composite layers of the list, drawn or
\* not, visibleCount the layers drawn in the viewport that are not
\* composite; so visibleCount + compositeCount <= totalCount and the hidden
\* count that is logged, totalCount - compositeCount - visibleCount, is not
\* negative.
C10_RenderStats ==
  \A n \in DOMAIN statsLog :
    LET s == statsLog[n].renderStats
        drawn == DrawnIn(statsLog[n].vi)
        Pickable(layer) == layer.pickable
        Composite(layer) == layer.isComposite
        Primitive(layer) == ~layer.isComposite
    IN  /\ statsLog[n].vi = n - 1
        /\ s.totalCount = Len(args.layers)
        /\ s.pickableCount = Cardinality(drawn \cap LayersWhere(Pickable))
        /\ s.compositeCount = Cardinality(LayersWhere(Composite))
        /\ s.visibleCount = Cardinality(drawn \cap LayersWhere(Primitive))
        /\ s.visibleCount + s.compositeCount <= s.totalCount
        /\ \A priority \in LogPriorities :
             LET line == statsLog[n].message[priority]
             IN  /\ line.hidden >= 0
                 /\ line.pass # "none" =>
                      line.hidden = s.totalCount - s.compositeCount - s.visibleCount

C10_Witness ==
  /\ Len(statsLog) = 2
  /\ statsLog[1].renderStats.visibleCount = 1
  /\ statsLog[1].renderStats.pickableCount = 2
  /\ statsLog[2].renderStats.totalCount = 3
  /\ statsLog[2].renderStats.visibleCount = 0
  /\ statsLog[2].renderStats.compositeCount = 1
  /\ statsLog[2].renderStats.pickableCount = 0
  /\ statsLog[2].message[LOG_PRIORITY_DRAW + 1].hidden = 2
  /\ \E l \in 0..(Len(args.layers) - 1) :
       args.layers[l + 1].isComposite /\ l \notin DrawnIn(1)

----------------------------------------------------------------------------
(* C11 *)

ConstructorFields ==
  {"width", "height", "rotationX", "rotationOrbit", "orbitAxis", "lookAt", "up",
   "fov", "near", "far", "zoom"}

\* C11: fitBounds(max) returns an OrbitViewport whose distance is the
\* largest of max[0], max[1], max[2] over tan(fov PI / 360), and whose
\* width, height, rotationX, rotationOrbit, orbitAxis, lookAt, up, fov, near,
\* far and zoom are those of the viewport it was called on; that viewport's
\* fields, its distance among them, are after the call what they were
\* before.
C11_FitBoundsFrame ==
  call.op = "fitBounds" =>
    LET tan == TanHalfFov(call.this.fov)
        size == CHOOSE m \in {call.max[i] : i \in 1..3} :
                  \A i \in 1..3 : m >= call.max[i]
    IN  /\ call.returned.distance * tan[1] = size * tan[2]
        /\ \A f \in ConstructorFields : call.returned[f] = call.this[f]
        /\ call.thisAfter = call.this
        /\ orbit = call.returned

C11_Witness ==
  /\ call.op = "fitBounds"
  /\ call.max = <<1, 2, 1>>
  /\ call.this.fov = 53
  /\ call.this.distance = 5
  /\ call.this.lookAt = <<1, 2, 0>>
  /\ call.this.zoom = 2
  /\ call.returned.distance = 4
  /\ call.returned.lookAt = <<1, 2, 0>>
  /\ call.thisAfter.distance = 5

----------------------------------------------------------------------------
(* C12 *)

\* C12 as stated: constructing an OrbitViewport with an orbitAxis that is
\* neither 'Y' nor 'Z' fails, so the call produces no viewport.
C12_UnknownAxisRejected ==
  (call.op = "new" /\ Opt(call.opts, "orbitAxis", "Z") \notin {"Y", "Z"}) =>
    call.returned = NoOrbit

----------------------------------------------------------------------------
(* C13 *)

\* C13 as stated: no OrbitViewport has a distance that is 0 or negative,
\* whether it comes from the constructor or from fitBounds.
C13_DistancePositive ==
  orbit # NoOrbit => orbit.distance > 0

----------------------------------------------------------------------------
(* C14 *)

\* Is the world point inside the frustum of the viewport: in front of the
\* eye, and projected into the viewport's pixel rectangle and depth range
InFrustum(this, xyz) ==
  LET v == MatVec(this.pixelProjectionMatrix, xyz)
  IN  /\ v[4] > 0
      /\ 0 <= v[1] /\ v[1] <= this.width * v[4]
      /\ 0 <= v[2] /\ v[2] <= this.height * v[4]
      /\ -v[4] <= v[3] /\ v[3] <= v[4]

\* C14: unproject, given what project returned for a world point P and
\* called on the same viewport with the same topLeft, returns P, for topLeft
\* false and for topLeft true.  (The arithmetic being exact, the result is P
\* itself; the points are those project gives numbers for.)
C14_RoundTrip ==
  (/\ call.op = "unproject"
   /\ prev.op = "project"
   /\ call.this = prev.this
   /\ call.xyz = prev.result
   /\ call.topLeft = prev.topLeft) =>
    call.result = prev.xyz

C14_Witness ==
  /\ call.op = "unproject"
  /\ prev.op = "project"
  /\ call.this = prev.this
  /\ call.topLeft /\ prev.topLeft
  /\ Determinant(call.this.pixelProjectionMatrix) # 0
  /\ prev.xyz = Point(1, 1, 3, 1)
  /\ InFrustum(prev.this, prev.xyz)
  /\ prev.result = Point(5, 3, 1, 2)
  /\ call.xyz = prev.result
  /\ call.result = Point(1, 1, 3, 1)

----------------------------------------------------------------------------
(* C15 *)

\* C15: project(P, {topLeft: true}) and project(P, {topLeft: false}) on one
\* viewport have the same X and the same Z, the Y of the first is height
\* minus the Y of the second, and height minus the Y of the first is the Y
\* of the second again.
C15_TopLeftFlip ==
  (/\ call.op = "project"
   /\ prev.op = "project"
   /\ call.this = prev.this
   /\ call.xyz = prev.xyz
   /\ call.topLeft /\ ~prev.topLeft) =>
    LET top == call.result
        bottom == prev.result
    IN  /\ top[4] = bottom[4]
        /\ top[1] = bottom[1]
        /\ top[3] = bottom[3]
        /\ top[2] = call.this.height * bottom[4] - bottom[2]
        /\ call.this.height * top[4] - top[2] = bottom[2]

C15_Witness ==
  /\ call.op = "project"
  /\ prev.op = "project"
  /\ call.this = prev.this
  /\ call.xyz = Point(1, 1, 3, 1)
  /\ prev.xyz = call.xyz
  /\ call.topLeft /\ ~prev.topLeft
  /\ prev.result = Point(5, 1, 1, 2)
  /\ call.result = Point(5, 3, 1, 2)

----------------------------------------------------------------------------
(* C16 *)

\* The layer a draw event is for, as the caller gave it
LayerOf(e) == argsAtCall.layers[e.layerIndex + 1]

\* The keys drawLayerInViewport sets itself, after the two maps are merged
OwnKeys == IF IsPickingPass THEN {"viewport", "blendColor"} ELSE {"viewport"}

\* C16: the GPU parameters a layer is drawn with take, for a key of the
\* pass-level parameters, the pass-level value, whatever the layer's custom
\* parameters say; for another key of the layer's custom parameters, the
\* layer's value; and for viewport the viewport's device rectangle, whatever
\* either map says.  So in the picking pass of drawPickingBuffer every layer
\* is drawn with blend enabled, blendFunc [ONE, ZERO, CONSTANT_ALPHA, ZERO],
\* blendEquation FUNC_ADD and its own picking blend colour, whatever its
\* custom parameters say.
C16_ParameterPrecedence ==
  \A i \in Events("draw") :
    LET e == trace[i]
        custom == LayerOf(e).parameters
        passLevel == argsAtCall.parameters
        rectangle == getGLViewport(host, e.vp,
                       getPixelRatio(argsAtCall.useDevicePixelRatio, host))
    IN  /\ \A k \in (DOMAIN passLevel) \ OwnKeys :
             e.parameters[k] = passLevel[k] /\ e.gl[k] = passLevel[k]
        /\ \A k \in (DOMAIN custom) \ (DOMAIN passLevel \cup OwnKeys) :
             e.parameters[k] = custom[k] /\ e.gl[k] = custom[k]
        /\ e.parameters.viewport = rectangle
        /\ e.gl.viewport = rectangle
        /\ argsAtCall.pass = "picking" =>
             /\ e.gl.blend
             /\ e.gl.blendFunc = <<"ONE", "ZERO", "CONSTANT_ALPHA", "ZERO">>
             /\ e.gl.blendEquation = "FUNC_ADD"
             /\ e.gl.blendColor = <<0, 0, 0, e.layerIndex + 1>>

C16_Witness ==
  /\ argsAtCall.pass = "picking"
  /\ \E i \in Events("draw") :
       /\ trace[i].layer = "group"
       /\ trace[i].layerIndex = 1
       /\ ~LayerOf(trace[i]).parameters.blend
       /\ LayerOf(trace[i]).parameters.blendColor = <<9, 9, 9, 9>>
       /\ LayerOf(trace[i]).parameters.viewport = <<1, 1, 1, 1>>
       /\ trace[i].gl.blend
       /\ trace[i].gl.blendColor = <<0, 0, 0, 2>>
       /\ trace[i].gl.viewport = <<80, 80, 40, 100>>

----------------------------------------------------------------------------
(* C17 *)

\* The pixel ratio the pass resolves
ResolvedPixelRatio ==
  IF argsAtCall.useDevicePixelRatio = "true" /\ HasWindow(host)
    THEN DevicePixelRatio
    ELSE 1

\* The height of the drawing surface in the pixels of the viewports'
\* rectangles: that of the canvas, and for a context that has no canvas
\* that of its drawing buffer
SurfaceHeight == IF HasCanvas(host) THEN ClientHeight ELSE DrawingBufferHeight

DeviceRectangle(vp, r, H) ==
  <<vp.x * r, (H - vp.y - vp.height) * r, vp.width * r, vp.height * r>>

----------------------------------------------------------------------------
(* C18 *)

\* The clear, activation and draw operations of a trace, in order
Operations(tr) == [i \in DOMAIN tr |-> <<tr[i].type, tr[i].vi, tr[i].layerIndex>>]

\* The operations of a pass in which no draw raises, from its arguments
RECURSIVE LayerOperations(_, _)
LayerOperations(v, l) ==
  IF l >= Len(argsAtCall.layers)
    THEN <<>>
    ELSE (IF Eligible(argsAtCall.layers[l + 1], ResolvedEntry(v))
            THEN << <<"draw", v, l>> >>
            ELSE <<>>)
         \o LayerOperations(v, l + 1)

RECURSIVE ViewportOperations(_)
ViewportOperations(v) ==
  IF v >= Len(argsAtCall.viewports)
    THEN <<>>
    ELSE << <<"active", v, -1>> >> \o LayerOperations(v, 0) \o ViewportOperations(v + 1)

ExpectedOperations == << <<"clear", -1, -1>> >> \o ViewportOperations(0)

\* The viewports whose layer iteration has completed
CompletedViewports == IF pc = "idle" THEN 0 ELSE vi

C18_CounterInState ==
  /\ renderCount = renderCountAtCall + CompletedViewports
  /\ Len(statsLog) = CompletedViewports
  /\ \A n \in DOMAIN statsLog :
       \A priority \in LogPriorities :
         priority >= LOG_PRIORITY_DRAW =>
           statsLog[n].message[priority].render = renderCountAtCall + n
  /\ pc = "returned" => renderCount = renderCountAtCall + Len(argsAtCall.viewports)
  /\ pc # "idle" =>
       /\ Len(trace) <= Len(ExpectedOperations)
       /\ Operations(trace) = SubSeq(ExpectedOperations, 1, Len(trace))
       /\ pc = "returned" => Len(trace) = Len(ExpectedOperations)

C18_CounterStep ==
  /\ renderCount' >= renderCount
  /\ renderCount' # renderCount =>
       /\ renderCount' = renderCount + 1
       /\ pc = "layers" /\ li = Len(args.layers)
       /\ Len(statsLog') = Len(statsLog) + 1
       /\ trace' = trace

\* C18: the render counter never decreases; it goes up by one, and only
\* when the layer iteration of a viewport has gone past its last layer,
\* in the step that logs that viewport's statistics, whose line shows the
\* value already incremented.  At any point of a call it is its value at
\* the call plus the number of viewports completed, so a call that returns
\* after V viewports has raised it by V, whatever the layers, the filter
\* and the log priority.  The clear, activation and draw operations made
\* are those the arguments determine, as the counter goes from its value at
\* the call, which is not 0, through the values after it.
C18_RenderCounter == [](C18_CounterInState) /\ [][C18_CounterStep]_vars

C18_Witness ==
  /\ pc = "returned"
  /\ renderCountAtCall = 7
  /\ renderCount = 9
  /\ Len(argsAtCall.viewports) = 2
  /\ Len(argsAtCall.layers) = 3
  /\ argsAtCall.layerFilter = "filter"
  /\ DrawnIn(0) = {1, 2}
  /\ DrawnIn(1) = {}
  /\ statsLog[1].message[LOG_PRIORITY_DRAW].render = 8
  /\ statsLog[2].message[LOG_PRIORITY_DRAW + 1].render = 9
  /\ statsLog[2].message[LOG_PRIORITY_DRAW - 1].pass = "none"

----------------------------------------------------------------------------
(* C19 *)

\* The position, from 0, of the layer of that id in the layers list the
\* caller gave, layers that are not drawn counted
PositionOf(id) ==
  (CHOOSE p \in DOMAIN argsAtCall.layers : argsAtCall.layers[p].id = id) - 1

\* Draws of other layers in the viewport of draw event i
OtherDraws(i) ==
  {j \in Events("draw") : trace[j].vi = trace[i].vi /\ trace[j].layer # trace[i].layer}

\* C19: the layerIndex uniform a layer is drawn with is the layer's position
\* in the full layers list, whatever layerIndex its context uniforms carry;
\* in a picking pass the alpha of the blend colour of the same draw, in
\* units of 1/255, is that layerIndex + 1, and no other layer drawn in the
\* same viewport has the same alpha.
C19_LayerIndexUniform ==
  \A i \in Events("draw") :
    LET e == trace[i]
    IN  /\ e.uniforms.layerIndex = PositionOf(e.layer)
        /\ IsPickingPass =>
             /\ e.parameters.blendColor[4] = e.uniforms.layerIndex + 1
             /\ e.gl.blendColor[4] = e.uniforms.layerIndex + 1
             /\ \A j \in OtherDraws(i) :
                  trace[j].parameters.blendColor[4] # e.parameters.blendColor[4]

C19_Witness ==
  /\ IsPickingPass
  /\ Len(argsAtCall.layers) = 3
  /\ argsAtCall.layers[1].id = "hidden"
  /\ DrawnIn(0) = {1, 2}
  /\ \E i \in Events("draw") :
       /\ trace[i].layer = "pick"
       /\ LayerOf(trace[i]).uniforms.layerIndex = 99
       /\ trace[i].uniforms.layerIndex = 2
       /\ trace[i].gl.blendColor[4] = 3
       /\ \E j \in OtherDraws(i) : trace[j].gl.blendColor[4] = 2

----------------------------------------------------------------------------
(* C20 *)

\* The keys of the uniforms that drawLayerInViewport sets itself
PickingUniformKeys == {"renderPickingBuffer", "pickingEnabled"}

\* The keys getPickingModuleParameters gives for that layer in that pass
SelectedColorKeys(layer) ==
  IF IsPickingPass /\ layer.highlightedObjectIndex >= 0
    THEN {"pickingSelectedColor", "pickingSelectedColorValid"}
    ELSE {}

\* What layer.drawLayer is handed holds nothing but the layer's own inputs,
\* the pass-level inputs and the values resolved for that layer
OwnObjects(e) ==
  LET layer == LayerOf(e)
      flag == IF IsPickingPass THEN 1 ELSE 0
  IN  /\ DOMAIN e.uniforms =
           PickingUniformKeys \cup (DOMAIN layer.uniforms) \cup {"layerIndex"}
      /\ \A k \in DOMAIN e.uniforms :
           e.uniforms[k] =
             IF k = "layerIndex" THEN e.layerIndex
             ELSE IF k \in DOMAIN layer.uniforms THEN layer.uniforms[k]
             ELSE flag
      /\ DOMAIN e.moduleParameters =
           (DOMAIN Props(layer)) \cup {"viewport", "pickingActive"}
             \cup SelectedColorKeys(layer)
      /\ e.moduleParameters.parameters = layer.parameters
      /\ e.moduleParameters.highlightedObjectIndex = layer.highlightedObjectIndex
      /\ e.moduleParameters.viewport = e.vp
      /\ e.moduleParameters.pickingActive = flag
      /\ SelectedColorKeys(layer) # {} =>
           e.moduleParameters.pickingSelectedColor.encodePickingColor =
             layer.highlightedObjectIndex
      /\ DOMAIN e.parameters =
           (DOMAIN layer.parameters) \cup (DOMAIN argsAtCall.parameters) \cup OwnKeys
      /\ IsPickingPass => e.parameters.blendColor = <<0, 0, 0, e.layerIndex + 1>>

\* C20: at every point of a call and after it the arguments are as the
\* caller gave them: the layers list and its order, each layer's props,
\* custom parameters and context uniforms, the pass-level parameters and the
\* viewports list; and the uniforms, module parameters and GPU parameters of
\* each draw hold only what belongs to that layer, so nothing resolved for
\* one layer shows in what another layer is drawn with.
C20_InputsUnchanged ==
  /\ args = argsAtCall
  /\ \A i \in Events("draw") : OwnObjects(trace[i])

C20_Witness ==
  /\ pc = "returned"
  /\ argsAtCall.fn = "drawPickingBuffer"
  /\ Len(argsAtCall.viewports) = 2
  /\ DrawnIn(0) = {0, 1}
  /\ DrawnIn(1) = {0, 1}
  /\ args.layers[1].id = "pick"
  /\ args.layers[2].id = "group"
  /\ args.layers[2].parameters.blendColor = <<9, 9, 9, 9>>
  /\ args.layers[1].parameters = NoParams
  /\ \E i, j \in Events("draw") :
       /\ i < j
       /\ trace[i].vi = 0 /\ trace[j].vi = 0
       /\ trace[i].layer = "pick" /\ trace[j].layer = "group"
       /\ "pickingSelectedColor" \in DOMAIN trace[i].moduleParameters
       /\ "pickingSelectedColor" \notin DOMAIN trace[j].moduleParameters
       /\ trace[i].uniforms.pickingEnabled = 0
       /\ trace[j].uniforms.pickingEnabled = 1
       /\ trace[i].parameters.blendColor = <<0, 0, 0, 1>>
       /\ trace[j].parameters.blendColor = <<0, 0, 0, 2>>

====
